---- MODULE Spec2Model ----
(***************************************************************************)
(* Model of the task API of hackathon-todo-phase2: the JWT dependency      *)
(* (src/api/deps.py), the request schemas (src/models/task.py), the six    *)
(* task handlers (src/api/tasks.py) and the per-request database session   *)
(* (src/db/session.py).                                                     *)
(*                                                                         *)
(* One action is one whole HTTP request: dependency resolution (token      *)
(* verification, session), body validation, the handler body, and the      *)
(* session's commit or rollback.                                           *)
(*                                                                         *)
(* Encoding of Python values:                                              *)
(*   - a str that the code measures or strips (a title) is a sequence of   *)
(*     one-character strings;                                              *)
(*   - an Optional value is None == <<>> or Some(v) == <<v>>;              *)
(*   - a dict (a request body, model_dump(exclude_unset=True)) is a        *)
(*     function from the keys present to Optional values;                  *)
(*   - datetime values are naturals, one unit per clock tick.              *)
(***************************************************************************)
EXTENDS Integers, Sequences, FiniteSets, TLC

VARIABLES
    store,      \* committed rows of table "task": task id -> row
    idSeq,      \* last value issued by the id sequence of table "task"
    clock,      \* latest value returned by datetime.utcnow()
    deleted,    \* history: ids whose row a delete request removed
    req,        \* the request handled last
    resp,       \* the response it got
    calls,      \* history: what that request did with its session, in order
    sessions    \* the sessions of the requests in flight, by request slot

vars == <<store, idSeq, clock, deleted, req, resp, calls, sessions>>

(***************************************************************************)
(* Bounds of the model.                                                    *)
(***************************************************************************)
MaxTasks == 2
MaxFieldTasks == 1
MaxAuthTasks == 1
MaxClock == 1
MaxSessionTasks == 1
MaxRequests == 2
MaxConcurrentTasks == 1

(***************************************************************************)
(* Python values.                                                          *)
(***************************************************************************)
None == <<>>
Some(v) == <<v>>

Rep(c, n) == [i \in 1..n |-> c]

Whitespace == {" ", "\t", "\n"}

\* str.lstrip(), str.rstrip() and str.strip(): the string without its leading
\* and trailing whitespace.
RECURSIVE LStrip(_)
LStrip(str) ==
    IF str # <<>> /\ Head(str) \in Whitespace THEN LStrip(Tail(str)) ELSE str

RECURSIVE RStrip(_)
RStrip(str) ==
    IF str # <<>> /\ str[Len(str)] \in Whitespace
    THEN RStrip(SubSeq(str, 1, Len(str) - 1))
    ELSE str

Strip(str) == RStrip(LStrip(str))

\* Truthiness of an Optional[str]: None and "" are falsy.
Falsy(opt) == opt = None \/ Len(opt[1]) = 0

(***************************************************************************)
(* src/models/task.py                                                      *)
(***************************************************************************)
TitleMinLength == 1
TitleMaxLength == 200

\* Mutant: the maximum is exclusive.
TitleFieldExclusive(title) ==
    TitleMinLength <= Len(title) /\ Len(title) < TitleMaxLength

\* Field(min_length=1, max_length=200) on a str.
TitleField(title) == TitleMinLength <= Len(title) /\ Len(title) <= TitleMaxLength

\* TaskCreate: title is a required str with the length constraints,
\* description an Optional[str].
TaskCreate(task_data) ==
    /\ DOMAIN task_data = {"title", "description"}
    /\ task_data["title"] # None
    /\ TitleField(task_data["title"][1])

\* TaskUpdate: every field optional and nullable; the length constraints
\* apply to a title that is a str.  Keys of the body that are no field of
\* the schema are ignored.
TaskUpdate(task_data) ==
    ("title" \in DOMAIN task_data /\ task_data["title"] # None)
        => TitleField(task_data["title"][1])

TaskUpdateFields == {"title", "description", "is_completed"}

\* Mutant: the keys of the body that are no field of the schema are kept.
model_dump_extra(task_data) == task_data

\* task_data.model_dump(exclude_unset=True): the fields of the schema that
\* the body set.
model_dump(task_data) ==
    [f \in DOMAIN task_data \cap TaskUpdateFields |-> task_data[f]]

\* TaskRead: the response schema; user_id is not part of it.
TaskRead(task) ==
    [id |-> task.id, title |-> task.title, description |-> task.description,
     is_completed |-> task.is_completed, created_at |-> task.created_at,
     updated_at |-> task.updated_at]

\* Mutant: the column accepts NULL.
IsCompletedColumnNullable(v) == TRUE

\* Column is_completed is NOT NULL (a bool field of the table model).
IsCompletedColumn(v) == v # None

(***************************************************************************)
(* Responses.                                                              *)
(***************************************************************************)
NoBody == <<>>

\* A response: status code, the error envelope's code and message ("" when
\* the body has no envelope), the body or the error details, and the value of
\* the WWW-Authenticate header ("" when the header is not sent).
Response(status, body) ==
    [status |-> status, body |-> body, code |-> "", message |-> "",
     www_authenticate |-> ""]

ErrorResponse(status, code, message, details) ==
    [status |-> status, body |-> details, code |-> code, message |-> message,
     www_authenticate |-> ""]

\* src/api/deps.py: class AuthenticationError
AuthenticationError(detail) ==
    [status |-> 401, body |-> NoBody, code |-> "UNAUTHORIZED", message |-> detail,
     www_authenticate |-> "Bearer"]

\* src/api/tasks.py: class ValidationError
ValidationError(message, fld, constraint) ==
    ErrorResponse(400, "VALIDATION_ERROR", message,
                  [field |-> fld, constraint |-> constraint])

\* src/api/tasks.py: class NotFoundError
NotFoundError(message) == ErrorResponse(404, "NOT_FOUND", message, NoBody)

\* The framework's answer to a body that fails its schema.
RequestValidationError ==
    ErrorResponse(422, "", "", [field |-> "title", constraint |-> "schema"])

\* The framework's answer to an exception that is no HTTPException.
InternalServerError == ErrorResponse(500, "", "Internal Server Error", NoBody)

(***************************************************************************)
(* src/api/deps.py: get_current_user_id                                    *)
(* A credential is [kind, sub]: kind "valid" is a well-formed, correctly   *)
(* signed, unexpired token, any other kind makes jwt.decode raise a        *)
(* JWTError; sub is the Optional subject claim.                            *)
(***************************************************************************)
JWTErrorMessage(kind) ==
    CASE kind = "badsig"    -> "Invalid token: Signature verification failed."
      [] kind = "expired"   -> "Invalid token: Signature has expired."
      [] OTHER              -> "Invalid token: Not enough segments"

get_current_user_id(cred) ==
    IF cred.kind # "valid"
    THEN [ok |-> FALSE, error |-> AuthenticationError(JWTErrorMessage(cred.kind))]
    ELSE IF cred.sub = None
    THEN [ok |-> FALSE,
          error |-> AuthenticationError("Token missing user identifier")]
    ELSE [ok |-> TRUE, user_id |-> cred.sub[1]]

\* security = HTTPBearer(): a request without an Authorization header ends in
\* the framework's own {"detail": "Not authenticated"}, which has no error
\* envelope; its status is 403, or 401 with the Bearer challenge, by the
\* framework's release.  Empty for a request that carries a bearer token.
HTTPBearer(cred) ==
    IF cred.kind # "absent" THEN {}
    ELSE {ErrorResponse(403, "", "Not authenticated", NoBody),
          [status |-> 401, body |-> NoBody, code |-> "",
           message |-> "Not authenticated", www_authenticate |-> "Bearer"]}

\* CurrentUserId = Depends(get_current_user_id), itself Depends(security):
\* the outcomes of resolving the identity of a request.
CurrentUserId(cred) ==
    IF HTTPBearer(cred) # {}
    THEN {[ok |-> FALSE, error |-> e] : e \in HTTPBearer(cred)}
    ELSE {get_current_user_id(cred)}

(***************************************************************************)
(* datetime.utcnow(): a reading of a clock that does not run backwards.    *)
(***************************************************************************)
utcnow(last) == {t \in last..(last + 1) : t <= MaxClock}

(***************************************************************************)
(* src/db/session.py: get_session.  A handler outcome is                   *)
(*   [raised, resp, store, idSeq, clock, deleted, calls]:                  *)
(* the rows as the session sees them after its flushes, whether the        *)
(* handler left by an exception, and the awaited session calls it made     *)
(* ("execute" a SELECT, "flush" the pending INSERT/UPDATE/DELETE,          *)
(* "refresh" the row).                                                     *)
(*                                                                         *)
(* get_session opens the session, and after the handler commits (normal    *)
(* exit) or rolls back (exception, a failing commit included), and closes. *)
(* A rollback restores the committed rows; values drawn from the id        *)
(* sequence stay drawn.  The environment env is                            *)
(*   [commitFails, respondFirst]:                                          *)
(* whether the store fails the commit, and whether the framework sends the *)
(* handler's response before it resumes get_session after its yield (by    *)
(* the framework's release) or after.  The response to an exception is     *)
(* always built after the exception has passed through get_session.        *)
(***************************************************************************)
Returned(response, s, seq, now, del, did) ==
    [raised |-> FALSE, resp |-> response, store |-> s, idSeq |-> seq,
     clock |-> now, deleted |-> del, calls |-> did]

Raised(response, s, seq, now, del, did) ==
    [raised |-> TRUE, resp |-> response, store |-> s, idSeq |-> seq,
     clock |-> now, deleted |-> del, calls |-> did]

\* Mutant: an exception in the handler is followed by a commit.
get_session_commits(committed, committedDeleted, outcome, env) ==
    [outcome EXCEPT
        !.calls = <<"open">> \o @ \o <<"commit", "close", "respond">>]

get_session(committed, committedDeleted, outcome, env) ==
    IF outcome.raised
    THEN [outcome EXCEPT
            !.store = committed, !.deleted = committedDeleted,
            !.calls = <<"open">> \o @ \o <<"rollback", "close", "respond">>]
    ELSE IF ~env.commitFails
    THEN [outcome EXCEPT
            !.calls = <<"open">> \o @ \o
                        IF env.respondFirst
                        THEN <<"respond", "commit", "close">>
                        ELSE <<"commit", "close", "respond">>]
    ELSE [outcome EXCEPT
            !.raised = TRUE,
            !.store = committed, !.deleted = committedDeleted,
            !.resp = IF env.respondFirst THEN @ ELSE InternalServerError,
            !.calls = <<"open">> \o @ \o
                        IF env.respondFirst
                        THEN <<"respond", "commit", "rollback", "close">>
                        ELSE <<"commit", "rollback", "close", "respond">>]

\* The environment of a request: does the store fail the commit, and does
\* the framework send the response before get_session resumes.
Environment(commitFails, respondFirst) ==
    [commitFails |-> commitFails, respondFirst |-> respondFirst]

\* A store that commits, under a framework that responds after get_session
\* has finished.
NoFaults == {Environment(FALSE, FALSE)}

\* Both orders of response and commit; commits that succeed and fail.
Environments == {Environment(f, r) : f \in BOOLEAN, r \in BOOLEAN}

(***************************************************************************)
(* src/api/tasks.py                                                        *)
(***************************************************************************)
\* Mutant: the id after the largest id in the table.
NextTaskIdAfterMax(s, seq) ==
    IF DOMAIN s = {} THEN 1
    ELSE (CHOOSE i \in DOMAIN s : \A j \in DOMAIN s : j <= i) + 1

\* The id the table's sequence gives the next inserted row.
NextTaskId(s, seq) == seq + 1

\* Mutant: the two clock readings are stored the other way round.
create_task_swapped(s, seq, now, del, task_data, user_id, t1, t2) ==
    LET title == task_data["title"]
    IN  IF Falsy(title) \/ Len(Strip(title[1])) = 0
        THEN Raised(ValidationError("Title is required", "title", "required"),
                    s, seq, now, del, <<>>)
        ELSE IF Len(title[1]) > 200
        THEN Raised(ValidationError("Title must be 1-200 characters", "title", "length"),
                    s, seq, now, del, <<>>)
        ELSE LET id == NextTaskId(s, seq)
                 task == [id |-> id,
                          title |-> Strip(title[1]),
                          description |-> task_data["description"],
                          user_id |-> user_id,
                          is_completed |-> FALSE,
                          created_at |-> t2,
                          updated_at |-> t1]
             IN  Returned(Response(201, TaskRead(task)),
                          (id :> task) @@ s, id, t2, del,
                          <<"flush", "refresh">>)

create_task(s, seq, now, del, task_data, user_id, t1, t2) ==
    LET title == task_data["title"]
    IN  IF Falsy(title) \/ Len(Strip(title[1])) = 0
        THEN Raised(ValidationError("Title is required", "title", "required"),
                    s, seq, now, del, <<>>)
        ELSE IF Len(title[1]) > 200
        THEN Raised(ValidationError("Title must be 1-200 characters", "title", "length"),
                    s, seq, now, del, <<>>)
        ELSE LET id == NextTaskId(s, seq)
                 task == [id |-> id,
                          title |-> Strip(title[1]),
                          description |-> task_data["description"],
                          user_id |-> user_id,
                          is_completed |-> FALSE,
                          created_at |-> t1,
                          updated_at |-> t2]
             IN  Returned(Response(201, TaskRead(task)),
                          (id :> task) @@ s, id, t2, del,
                          <<"flush", "refresh">>)

\* Mutant: oldest first.
list_tasks_ascending(s, user_id) ==
    LET ids == {i \in DOMAIN s : s[i].user_id = user_id}
        n == Cardinality(ids)
        orders == {f \in [1..n -> ids] :
                      /\ \A i, j \in 1..n : i # j => f[i] # f[j]
                      /\ \A i, j \in 1..n :
                            i < j => s[f[i]].created_at <= s[f[j]].created_at}
    IN  {[i \in 1..n |-> TaskRead(s[f[i]])] : f \in orders}

\* The rows of user_id in every order the ORDER BY created_at DESC allows.
list_tasks(s, user_id) ==
    LET ids == {i \in DOMAIN s : s[i].user_id = user_id}
        n == Cardinality(ids)
        orders == {f \in [1..n -> ids] :
                      /\ \A i, j \in 1..n : i # j => f[i] # f[j]
                      /\ \A i, j \in 1..n :
                            i < j => s[f[i]].created_at >= s[f[j]].created_at}
    IN  {[i \in 1..n |-> TaskRead(s[f[i]])] : f \in orders}

\* Mutant: the owner of the row is not compared.
get_task_unchecked(s, task_id, user_id) ==
    IF task_id \notin DOMAIN s
    THEN [ok |-> FALSE, error |-> NotFoundError("Task not found")]
    ELSE [ok |-> TRUE, task |-> s[task_id]]

\* Mutant: a row of another user is answered 403.
get_task_forbidden(s, task_id, user_id) ==
    IF task_id \notin DOMAIN s
    THEN [ok |-> FALSE, error |-> NotFoundError("Task not found")]
    ELSE IF s[task_id].user_id # user_id
    THEN [ok |-> FALSE, error |-> ErrorResponse(403, "FORBIDDEN", "Forbidden", NoBody)]
    ELSE [ok |-> TRUE, task |-> s[task_id]]

\* The row with id task_id when user_id owns it; NotFoundError when there is
\* no such row and when the row is another user's.
get_task_with_ownership(s, task_id, user_id) ==
    IF task_id \notin DOMAIN s \/ s[task_id].user_id # user_id
    THEN [ok |-> FALSE, error |-> NotFoundError("Task not found")]
    ELSE [ok |-> TRUE, task |-> s[task_id]]

\* Mutant: an update that does not name the flag clears it.
SetAttrsClearsFlag(task, update_data, t) ==
    [f \in DOMAIN task |->
        IF f = "updated_at" THEN t
        ELSE IF f = "is_completed" /\ f \notin DOMAIN update_data THEN FALSE
        ELSE IF f \notin DOMAIN update_data THEN task[f]
        ELSE IF f = "title" THEN Strip(update_data[f][1])
        ELSE IF f = "description" THEN update_data[f]
        ELSE update_data[f][1]]

\* The for-loop of setattr calls and the updated_at stamp of update_task.
\* Read only when the title, if given, is a str.  setattr does not validate:
\* an is_completed of None is set on the object as it is.
SetAttrs(task, update_data, t) ==
    [f \in DOMAIN task |->
        IF f = "updated_at" THEN t
        ELSE IF f \notin DOMAIN update_data THEN task[f]
        ELSE IF f = "title" THEN Strip(update_data[f][1])
        ELSE IF f = "description" THEN update_data[f]
        ELSE IF update_data[f] = None THEN None
        ELSE update_data[f][1]]

\* Mutant: an empty update is not told from another.
NoUpdatesNever(update_data) == FALSE

\* "if not update_data": no field was sent.
NoUpdates(update_data) == DOMAIN update_data = {}

\* Mutant: the title is not stripped before the emptiness test.
TitleErrorUnstripped(update_data) ==
    IF "title" \notin DOMAIN update_data THEN None
    ELSE IF Falsy(update_data["title"])
    THEN Some(ValidationError("Title is required", "title", "required"))
    ELSE IF Len(update_data["title"][1]) > 200
    THEN Some(ValidationError("Title must be 1-200 characters", "title", "length"))
    ELSE None

\* "Validate title if provided": None, or Some(the error raised).
TitleError(update_data) ==
    IF "title" \notin DOMAIN update_data THEN None
    ELSE IF \/ Falsy(update_data["title"])
            \/ Len(Strip(update_data["title"][1])) = 0
    THEN Some(ValidationError("Title is required", "title", "required"))
    ELSE IF Len(update_data["title"][1]) > 200
    THEN Some(ValidationError("Title must be 1-200 characters", "title", "length"))
    ELSE None

\* Mutant: the title is validated after the fields were set and flushed.
update_task_validates_late(s, seq, now, del, task_id, task_data, user_id, t) ==
    LET found == get_task_with_ownership(s, task_id, user_id)
        update_data == model_dump(task_data)
    IN  IF ~found.ok THEN Raised(found.error, s, seq, now, del, <<"execute">>)
        ELSE IF NoUpdates(update_data)
        THEN Returned(Response(200, TaskRead(found.task)), s, seq, now, del,
                      <<"execute">>)
        ELSE IF TitleError(update_data) # None
        THEN Raised(TitleError(update_data)[1], s, seq, now, del,
                    <<"execute", "flush">>)
        ELSE IF /\ "is_completed" \in DOMAIN update_data
                /\ ~IsCompletedColumn(update_data["is_completed"])
        THEN \* flush: the UPDATE violates NOT NULL
             Raised(InternalServerError, s, seq, t, del, <<"execute", "flush">>)
        ELSE LET task == SetAttrs(found.task, update_data, t)
             IN  Returned(Response(200, TaskRead(task)),
                          [s EXCEPT ![task_id] = task], seq, t, del,
                          <<"execute", "flush", "refresh">>)

update_task(s, seq, now, del, task_id, task_data, user_id, t) ==
    LET found == get_task_with_ownership(s, task_id, user_id)
        update_data == model_dump(task_data)
    IN  IF ~found.ok THEN Raised(found.error, s, seq, now, del, <<"execute">>)
        ELSE IF NoUpdates(update_data)
        THEN Returned(Response(200, TaskRead(found.task)), s, seq, now, del,
                      <<"execute">>)
        ELSE IF TitleError(update_data) # None
        THEN Raised(TitleError(update_data)[1], s, seq, now, del, <<"execute">>)
        ELSE IF /\ "is_completed" \in DOMAIN update_data
                /\ ~IsCompletedColumn(update_data["is_completed"])
        THEN \* flush: the UPDATE violates NOT NULL
             Raised(InternalServerError, s, seq, t, del, <<"execute", "flush">>)
        ELSE LET task == SetAttrs(found.task, update_data, t)
             IN  Returned(Response(200, TaskRead(task)),
                          [s EXCEPT ![task_id] = task], seq, t, del,
                          <<"execute", "flush", "refresh">>)

delete_task(s, seq, now, del, task_id, user_id) ==
    LET found == get_task_with_ownership(s, task_id, user_id)
    IN  IF ~found.ok THEN Raised(found.error, s, seq, now, del, <<"execute">>)
        ELSE Returned(Response(204, NoBody),
                      [i \in DOMAIN s \ {task_id} |-> s[i]], seq, now,
                      del \cup {task_id}, <<"execute", "flush">>)

\* Mutant: the flag is flipped.
complete_task_flips(s, seq, now, del, task_id, user_id, t) ==
    LET found == get_task_with_ownership(s, task_id, user_id)
    IN  IF ~found.ok THEN Raised(found.error, s, seq, now, del, <<"execute">>)
        ELSE LET task == [found.task EXCEPT !.is_completed = ~@, !.updated_at = t]
             IN  Returned(Response(200, TaskRead(task)),
                          [s EXCEPT ![task_id] = task], seq, t, del,
                          <<"execute", "flush", "refresh">>)

complete_task(s, seq, now, del, task_id, user_id, t) ==
    LET found == get_task_with_ownership(s, task_id, user_id)
    IN  IF ~found.ok THEN Raised(found.error, s, seq, now, del, <<"execute">>)
        ELSE LET task == [found.task EXCEPT !.is_completed = TRUE, !.updated_at = t]
             IN  Returned(Response(200, TaskRead(task)),
                          [s EXCEPT ![task_id] = task], seq, t, del,
                          <<"execute", "flush", "refresh">>)

uncomplete_task(s, seq, now, del, task_id, user_id, t) ==
    LET found == get_task_with_ownership(s, task_id, user_id)
    IN  IF ~found.ok THEN Raised(found.error, s, seq, now, del, <<"execute">>)
        ELSE LET task == [found.task EXCEPT !.is_completed = FALSE, !.updated_at = t]
             IN  Returned(Response(200, TaskRead(task)),
                          [s EXCEPT ![task_id] = task], seq, t, del,
                          <<"execute", "flush", "refresh">>)

(***************************************************************************)
(* Requests.                                                               *)
(***************************************************************************)
Request(op, cred, task_id, data) ==
    [cred |-> cred, task_id |-> task_id, op |-> op, data |-> data]

\* The request ends while its identity is resolved, before get_session is
\* entered.
Reject(response) ==
    /\ resp' = response
    /\ calls' = <<"respond">>
    /\ UNCHANGED <<store, idSeq, clock, deleted, sessions>>

\* The session's commit or rollback after the handler, and the response.
Settle(env, outcome) ==
    \E e \in env :
        LET o == get_session(store, deleted, outcome, e)
        IN  /\ resp' = o.resp
            /\ calls' = o.calls
            /\ store' = o.store
            /\ idSeq' = o.idSeq
            /\ clock' = o.clock
            /\ deleted' = o.deleted

\* The request runs from its first to its last step with no step of another
\* request in between.
Finish(env, outcome) == Settle(env, outcome) /\ UNCHANGED sessions

\* The body fails its schema: the handler is not called, and the
\* RequestValidationError passes through the session that was opened for it.
RejectBody(env) ==
    Finish(env, Raised(RequestValidationError, store, idSeq, clock, deleted, <<>>))

CreateTask(cap, env, cred, task_data) ==
    \E auth \in CurrentUserId(cred) :
        /\ req' = Request("create", cred, 0, task_data)
        /\ IF ~auth.ok THEN Reject(auth.error)
           ELSE IF ~TaskCreate(task_data) THEN RejectBody(env)
           ELSE /\ idSeq < cap
                /\ \E t1 \in utcnow(clock) : \E t2 \in utcnow(t1) :
                      Finish(env, create_task(store, idSeq, clock, deleted,
                                              task_data, auth.user_id, t1, t2))

ListTasks(env, cred) ==
    \E auth \in CurrentUserId(cred) :
        /\ req' = Request("list", cred, 0, <<>>)
        /\ IF ~auth.ok THEN Reject(auth.error)
           ELSE \E tasks \in list_tasks(store, auth.user_id) :
                   Finish(env, Returned(Response(200, tasks), store, idSeq, clock,
                                        deleted, <<"execute">>))

UpdateTask(env, cred, task_id, task_data) ==
    \E auth \in CurrentUserId(cred) :
        /\ req' = Request("update", cred, task_id, task_data)
        /\ IF ~auth.ok THEN Reject(auth.error)
           ELSE IF ~TaskUpdate(task_data) THEN RejectBody(env)
           ELSE \E t \in utcnow(clock) :
                   Finish(env, update_task(store, idSeq, clock, deleted,
                                           task_id, task_data, auth.user_id, t))

DeleteTask(env, cred, task_id) ==
    \E auth \in CurrentUserId(cred) :
        /\ req' = Request("delete", cred, task_id, <<>>)
        /\ IF ~auth.ok THEN Reject(auth.error)
           ELSE Finish(env, delete_task(store, idSeq, clock, deleted,
                                        task_id, auth.user_id))

CompleteTask(env, cred, task_id) ==
    \E auth \in CurrentUserId(cred) :
        /\ req' = Request("complete", cred, task_id, <<>>)
        /\ IF ~auth.ok THEN Reject(auth.error)
           ELSE \E t \in utcnow(clock) :
                   Finish(env, complete_task(store, idSeq, clock, deleted,
                                             task_id, auth.user_id, t))

UncompleteTask(env, cred, task_id) ==
    \E auth \in CurrentUserId(cred) :
        /\ req' = Request("uncomplete", cred, task_id, <<>>)
        /\ IF ~auth.ok THEN Reject(auth.error)
           ELSE \E t \in utcnow(clock) :
                   Finish(env, uncomplete_task(store, idSeq, clock, deleted,
                                               task_id, auth.user_id, t))

(***************************************************************************)
(* Inputs.                                                                 *)
(***************************************************************************)
Token(kind, sub) == [kind |-> kind, sub |-> sub]

\* Well-formed tokens of two users.
UserCredentials == {Token("valid", Some("u1")), Token("valid", Some("u2"))}

\* Tokens of every kind: without subject, with the empty subject, with a
\* subject, badly signed, expired, malformed; and no Authorization header.
Credentials ==
    {Token("valid", sub) : sub \in {None, Some(""), Some("u1")}}
        \cup {Token(kind, Some("u1")) : kind \in {"badsig", "expired", "malformed"}}
        \cup {Token("absent", None)}

OwnerCredentials == {Token("valid", Some("u1"))}

EmptyTitle == <<>>
BlankTitle == <<" ">>
Title1 == <<"a">>
PaddedTitle == <<" ", "a", " ">>
Title200 == Rep("a", 200)
Title201 == Rep("a", 201)
PaddedTitle201 == <<" ">> \o Rep("a", 200)

TitleInputs ==
    {EmptyTitle, BlankTitle, Title1, PaddedTitle, Title200, Title201, PaddedTitle201}

CreateBody(title, description) == ("title" :> title) @@ ("description" :> description)

CreateInputs ==
    {CreateBody(Some(t), None) : t \in TitleInputs}
        \cup {CreateBody(Some(Title1), Some("d"))}

IsoCreateInputs == {CreateBody(Some(Title1), None)}

UpdateBody(fields, title, description, is_completed) ==
    [f \in fields |-> CASE f = "title" -> title
                        [] f = "description" -> description
                        [] OTHER -> is_completed]

\* A body that also names the columns the schema does not have.
ExtraKeys(body) ==
    [f \in DOMAIN body \cup {"id", "user_id", "created_at"} |->
        CASE f = "id" -> Some(2)
          [] f = "user_id" -> Some("u2")
          [] f = "created_at" -> Some(1)
          [] OTHER -> body[f]]

TitleOnly(title) == UpdateBody({"title"}, title, None, None)
AllFields == {"title", "description", "is_completed"}

UpdateInputs ==
    {<<>>}
        \cup {TitleOnly(None)} \cup {TitleOnly(Some(t)) : t \in TitleInputs}
        \cup {UpdateBody({"description"}, None, d, None) : d \in {None, Some("d")}}
        \cup {UpdateBody({"is_completed"}, None, None, c) :
                  c \in {None, Some(TRUE), Some(FALSE)}}
        \cup {UpdateBody(AllFields, Some(BlankTitle), Some("d"), Some(TRUE)),
              UpdateBody(AllFields, None, None, Some(TRUE)),
              UpdateBody({"title", "description"}, Some(Title201), Some("d"), None),
              UpdateBody({"title", "description"}, Some(EmptyTitle), None, None),
              UpdateBody(AllFields, Some(PaddedTitle), Some("d"), Some(TRUE)),
              UpdateBody(AllFields, Some(Title200), None, Some(FALSE)),
              UpdateBody({"title", "is_completed"}, Some(Title1), None, None),
              ExtraKeys(<<>>),
              ExtraKeys(UpdateBody({"description"}, None, Some("d"), None))}

IsoUpdateInputs ==
    {<<>>, UpdateBody({"is_completed"}, None, None, Some(TRUE)),
     TitleOnly(Some(EmptyTitle))}

AuthUpdateInputs == {UpdateBody({"is_completed"}, None, None, Some(TRUE))}

(***************************************************************************)
(* Requests in flight at the same time.  Each request has its own session  *)
(* (get_session) and so its own transaction, at the store's READ COMMITTED *)
(* level.  A handler runs without interruption between two awaits, so a    *)
(* request on a task takes three steps:                                    *)
(*   BeginRequest   the SELECT of get_task_with_ownership and the code up  *)
(*                  to "await session.flush()": validation, setattr,       *)
(*                  utcnow;                                                *)
(*   FlushRequest   flush and refresh: the unit of work sends an UPDATE    *)
(*                  that sets the columns whose value differs from the     *)
(*                  loaded one (or the DELETE); the statement waits while  *)
(*                  another transaction has written the row and not yet    *)
(*                  committed, and then sees the committed row;            *)
(*   CommitRequest  the return, the commit in get_session, the response.   *)
(* sessions maps the slots of the requests in flight to their sessions.  A *)
(* session is [req, resp, task, pc, loaded, lock]: the request, the        *)
(* response built so far, the Task object (after the flush: the row the    *)
(* transaction will commit), the next step, the row as loaded, and whether *)
(* the transaction has written the row.                                    *)
(***************************************************************************)
Slots == 1..MaxRequests

NoTask == <<>>

Session(pc, q, r, loaded, task, lock) ==
    [req |-> q, resp |-> r, task |-> task, pc |-> pc, loaded |-> loaded,
     lock |-> lock]

\* session.close(): the request of slot i is no longer in flight.
Close(i) == [j \in DOMAIN sessions \ {i} |-> sessions[j]]

\* Mutant: the UPDATE sets every column of the object.
DirtyAll(loaded, task) == DOMAIN task

\* The columns the flush writes: the attributes of the object whose value is
\* not the loaded one.
Dirty(loaded, task) == {f \in DOMAIN task : task[f] # loaded[f]}

\* UPDATE task SET cols WHERE id = ...: the committed row with the columns
\* cols taken from the object.
Update(row, task, cols) ==
    [f \in DOMAIN row |-> IF f \in cols THEN task[f] ELSE row[f]]

\* Another transaction has written the row and not committed.
Locked(i, task_id) ==
    \E j \in DOMAIN sessions \ {i} :
        /\ sessions[j].pc = "commit"
        /\ sessions[j].lock
        /\ sessions[j].req.task_id = task_id

\* The handler of the request, run on the committed rows.
Handler(op, task_id, task_data, user_id, t) ==
    CASE op = "update" ->
            update_task(store, idSeq, clock, deleted, task_id, task_data, user_id, t)
      [] op = "delete" ->
            delete_task(store, idSeq, clock, deleted, task_id, user_id)
      [] op = "complete" ->
            complete_task(store, idSeq, clock, deleted, task_id, user_id, t)
      [] OTHER ->
            uncomplete_task(store, idSeq, clock, deleted, task_id, user_id, t)

\* The request ended in an exception of its flush.
FlushError(i) ==
    /\ req' = sessions[i].req
    /\ resp' = InternalServerError
    /\ calls' = <<"open", "execute", "flush", "rollback", "close", "respond">>
    /\ sessions' = Close(i)
    /\ UNCHANGED <<store, idSeq, clock, deleted>>

BeginRequest(i, cred, op, task_id, task_data) ==
    LET auth == get_current_user_id(cred)
        q == Request(op, cred, task_id, task_data)
    IN  /\ i \notin DOMAIN sessions
        /\ auth.ok
        /\ op = "update" => TaskUpdate(task_data)
        /\ \E t \in utcnow(clock) :
              LET o == Handler(op, task_id, task_data, auth.user_id, t)
              IN  IF o.raised \/ \A k \in 1..Len(o.calls) : o.calls[k] # "flush"
                  THEN \* not found, no field, title rejected, is_completed null
                       /\ req' = q
                       /\ Settle(NoFaults, o)
                       /\ UNCHANGED sessions
                  ELSE /\ sessions' = (i :>
                              Session("flush", q, o.resp, store[task_id],
                                      IF op = "delete" THEN NoTask
                                      ELSE o.store[task_id], FALSE)) @@ sessions
                       /\ clock' = o.clock
                       /\ UNCHANGED <<store, idSeq, deleted, req, resp, calls>>

FlushRequest(i) ==
    LET ses == sessions[i]
        id == ses.req.task_id
    IN  /\ i \in DOMAIN sessions
        /\ ses.pc = "flush"
        /\ ~Locked(i, id)
        /\ IF ses.req.op = "delete"
           THEN \* a DELETE that matches no row is a warning, not an error
                /\ sessions' = [sessions EXCEPT ![i] =
                       Session("commit", ses.req, ses.resp, ses.loaded, NoTask,
                               id \in DOMAIN store)]
                /\ UNCHANGED <<store, idSeq, clock, deleted, req, resp, calls>>
           ELSE IF id \notin DOMAIN store
           THEN \* the UPDATE matches no row (StaleDataError), or with no
                \* UPDATE to send the refresh finds no row
                FlushError(i)
           ELSE LET cols == Dirty(ses.loaded, ses.task)
                    row == Update(store[id], ses.task, cols)
                IN  /\ sessions' = [sessions EXCEPT ![i] =
                           Session("commit", ses.req, Response(200, TaskRead(row)),
                                   ses.loaded, row, cols # {})]
                    /\ UNCHANGED <<store, idSeq, clock, deleted, req, resp, calls>>

CommitRequest(i) ==
    LET ses == sessions[i]
        id == ses.req.task_id
    IN  /\ i \in DOMAIN sessions
        /\ ses.pc = "commit"
        /\ store' = IF ~ses.lock THEN store
                    ELSE IF ses.req.op = "delete"
                    THEN [j \in DOMAIN store \ {id} |-> store[j]]
                    ELSE [store EXCEPT ![id] = ses.task]
        /\ deleted' = IF ses.lock /\ ses.req.op = "delete"
                      THEN deleted \cup {id} ELSE deleted
        /\ req' = ses.req
        /\ resp' = ses.resp
        /\ calls' = IF ses.req.op = "delete"
                    THEN <<"open", "execute", "flush", "commit", "close", "respond">>
                    ELSE <<"open", "execute", "flush", "refresh", "commit", "close",
                           "respond">>
        /\ sessions' = Close(i)
        /\ UNCHANGED <<idSeq, clock>>

\* The bodies of the concurrent updates: the title and flag a new task has,
\* another title, a description.
ConcurrentUpdateInputs ==
    {UpdateBody({"title", "description"}, Some(Title1), Some("d"), None),
     TitleOnly(Some(PaddedTitle)),
     UpdateBody({"is_completed"}, None, None, Some(FALSE))}

NextConcurrent ==
    \/ \E cred \in OwnerCredentials, task_data \in IsoCreateInputs :
          /\ DOMAIN sessions = {}
          /\ CreateTask(MaxConcurrentTasks, NoFaults, cred, task_data)
    \/ \E i \in Slots, cred \in OwnerCredentials, task_id \in 1..MaxConcurrentTasks :
          \/ \E task_data \in ConcurrentUpdateInputs :
                BeginRequest(i, cred, "update", task_id, task_data)
          \/ \E op \in {"delete", "complete", "uncomplete"} :
                BeginRequest(i, cred, op, task_id, <<>>)
    \/ \E i \in Slots : FlushRequest(i)
    \/ \E i \in Slots : CommitRequest(i)

(***************************************************************************)
(* Specifications.                                                         *)
(***************************************************************************)
SessionUpdateInputs ==
    {<<>>, TitleOnly(Some(BlankTitle)), TitleOnly(Some(EmptyTitle)),
     UpdateBody({"description"}, None, Some("d"), None),
     UpdateBody({"description", "is_completed"}, None, Some("d"), None)}

Init ==
    /\ store = <<>>
    /\ idSeq = 0
    /\ clock = 0
    /\ deleted = {}
    /\ req = Request("none", Token("none", None), 0, <<>>)
    /\ resp = Response(0, NoBody)
    /\ calls = <<>>
    /\ sessions = <<>>

Next(cap, env, creds, createInputs, updateInputs) ==
    \/ \E cred \in creds, task_data \in createInputs :
          CreateTask(cap, env, cred, task_data)
    \/ \E cred \in creds : ListTasks(env, cred)
    \/ \E cred \in creds, task_id \in 1..cap, task_data \in updateInputs :
          UpdateTask(env, cred, task_id, task_data)
    \/ \E cred \in creds, task_id \in 1..cap : DeleteTask(env, cred, task_id)
    \/ \E cred \in creds, task_id \in 1..cap : CompleteTask(env, cred, task_id)
    \/ \E cred \in creds, task_id \in 1..cap : UncompleteTask(env, cred, task_id)

\* Two users with well-formed tokens; one title.
Spec ==
    Init /\ [][Next(MaxTasks, NoFaults, UserCredentials, IsoCreateInputs,
                    IsoUpdateInputs)]_vars

\* Tokens of every kind; one title.
SpecAuth ==
    Init /\ [][Next(MaxAuthTasks, NoFaults, Credentials, IsoCreateInputs,
                    AuthUpdateInputs)]_vars

\* One user; every title, description and completion value.
SpecFields ==
    Init /\ [][Next(MaxFieldTasks, NoFaults, OwnerCredentials, CreateInputs,
                    UpdateInputs)]_vars

\* One user whose update, delete, complete and uncomplete requests run at the
\* same time, each in its own session.
SpecConcurrent == Init /\ [][NextConcurrent]_vars

\* One user; commits that succeed and fail, responses before and after the
\* commit.
SpecSession ==
    Init /\ [][Next(MaxSessionTasks, Environments, OwnerCredentials,
                    IsoCreateInputs \cup {CreateBody(Some(BlankTitle), None)},
                    SessionUpdateInputs)]_vars

(***************************************************************************)
(* Properties.  req' and resp' in an action property are the request a     *)
(* step handles and the response it gives; the unprimed store is the       *)
(* table before the request.                                               *)
(***************************************************************************)
TaskOps == {"update", "delete", "complete", "uncomplete"}

Authenticated(r) == get_current_user_id(r.cred).ok
Requester(r) == get_current_user_id(r.cred).user_id

\* The request is for a row that exists in table s and is the requester's.
OnOwnTask(r, s) ==
    /\ Authenticated(r)
    /\ r.task_id \in DOMAIN s
    /\ s[r.task_id].user_id = Requester(r)

\* The request is for a row that exists in table s and is another user's.
OnForeignTask(r, s) ==
    /\ Authenticated(r)
    /\ r.task_id \in DOMAIN s
    /\ s[r.task_id].user_id # Requester(r)

ListedIds(body) == {body[i].id : i \in 1..Len(body)}

Blank(title) == \A i \in 1..Len(title) : title[i] \in Whitespace

OwnRows(s, user_id) == [i \in {j \in DOMAIN s : s[j].user_id = user_id} |-> s[i]]

\* C2: the answer to update, delete, complete and uncomplete is the same
\* when the id does not exist and when it is another user's: every 404 is
\* the one NotFoundError("Task not found"), and the answer a user gets from
\* the table is the answer the user gets from the table without the other
\* users' rows.
C2_Indistinguishable ==
    /\ (req.op \in TaskOps /\ resp.status = 404) =>
           resp = NotFoundError("Task not found")
    /\ \A cred \in UserCredentials, id \in 1..MaxTasks, t \in utcnow(clock) :
          LET u == get_current_user_id(cred).user_id
              own == OwnRows(store, u)
          IN  /\ \A data \in IsoUpdateInputs :
                    update_task(store, idSeq, clock, deleted, id, data, u, t).resp
                        = update_task(own, idSeq, clock, deleted, id, data, u, t).resp
              /\ delete_task(store, idSeq, clock, deleted, id, u).resp
                    = delete_task(own, idSeq, clock, deleted, id, u).resp
              /\ complete_task(store, idSeq, clock, deleted, id, u, t).resp
                    = complete_task(own, idSeq, clock, deleted, id, u, t).resp
              /\ uncomplete_task(store, idSeq, clock, deleted, id, u, t).resp
                    = uncomplete_task(own, idSeq, clock, deleted, id, u, t).resp

\* A user asked to complete another user's task and got the not-found answer,
\* while some id of the table's range is in no row.
C2_Witness ==
    /\ req.op = "complete"
    /\ OnForeignTask(req, store)
    /\ resp = NotFoundError("Task not found")
    /\ \E id \in 1..MaxTasks : id \notin DOMAIN store

\* C3: after a create that succeeds, every list of the same user holds the
\* created task exactly once, not completed and with created_at = updated_at.
C3_CreateThenList ==
    (req.op = "create" /\ resp.status = 201) =>
        \A tasks \in list_tasks(store, Requester(req)) :
            /\ Cardinality({i \in 1..Len(tasks) : tasks[i].id = resp.body.id}) = 1
            /\ \A i \in 1..Len(tasks) :
                  tasks[i].id = resp.body.id =>
                      /\ tasks[i].is_completed = FALSE
                      /\ tasks[i].created_at = tasks[i].updated_at

\* What the code keeps of C3: listed exactly once, not completed, and
\* created_at <= updated_at.
C3_CreateThenListOrdered ==
    (req.op = "create" /\ resp.status = 201) =>
        \A tasks \in list_tasks(store, Requester(req)) :
            /\ Cardinality({i \in 1..Len(tasks) : tasks[i].id = resp.body.id}) = 1
            /\ \A i \in 1..Len(tasks) :
                  tasks[i].id = resp.body.id =>
                      /\ tasks[i].is_completed = FALSE
                      /\ tasks[i].created_at <= tasks[i].updated_at

\* The stored title st is title without its leading and trailing whitespace.
IsTrimOf(st, title) ==
    /\ st # <<>> => (st[1] \notin Whitespace /\ st[Len(st)] \notin Whitespace)
    /\ \E k \in 0..(Len(title) - Len(st)) :
          /\ SubSeq(title, k + 1, k + Len(st)) = st
          /\ Blank(SubSeq(title, 1, k))
          /\ Blank(SubSeq(title, k + Len(st) + 1, Len(title)))

\* C4: on create, and on update of a task of the requester, a title of
\* length 0, a whitespace-only title and a title of length 201 end in a
\* validation failure (400 or 422) and nothing is stored or changed; a title
\* of length 1 or 200 that is not whitespace is accepted and stored trimmed.
C4_TitleBoundaries ==
    [][ /\ (req'.op = "create" /\ Authenticated(req')) =>
              LET title == req'.data["title"][1]
              IN  /\ (Blank(title) \/ Len(title) = 201) =>
                        /\ resp'.status \in {400, 422}
                        /\ store' = store
                        /\ idSeq' = idSeq
                  /\ (~Blank(title) /\ Len(title) \in {1, 200}) =>
                        /\ resp'.status = 201
                        /\ resp'.body.id \notin DOMAIN store
                        /\ DOMAIN store' = DOMAIN store \cup {resp'.body.id}
                        /\ IsTrimOf(store'[resp'.body.id].title, title)
        /\ (/\ req'.op = "update" /\ OnOwnTask(req', store)
            /\ "title" \in DOMAIN req'.data /\ req'.data["title"] # None) =>
              LET title == req'.data["title"][1]
                  nullFlag == /\ "is_completed" \in DOMAIN req'.data
                              /\ req'.data["is_completed"] = None
              IN  /\ (Blank(title) \/ Len(title) = 201) =>
                        /\ resp'.status \in {400, 422}
                        /\ store' = store
                  /\ (~Blank(title) /\ Len(title) \in {1, 200}) =>
                        /\ resp'.status \notin {400, 422}
                        /\ ~nullFlag =>
                              /\ resp'.status = 200
                              /\ IsTrimOf(store'[req'.task_id].title, title)
      ]_vars

\* An update to a title of length 200 was accepted and stored.
C4_Witness ==
    /\ req.op = "update"
    /\ OnOwnTask(req, store)
    /\ "title" \in DOMAIN req.data
    /\ req.data["title"] = Some(Title200)
    /\ resp.status = 200
    /\ store[req.task_id].title = Title200

\* The fields of an update body that the handler accepts: a title that is a
\* str, not whitespace and of at most 200 characters, and a flag that is
\* not null.
AcceptedFields(data) ==
    /\ "title" \in DOMAIN data =>
          /\ data["title"] # None
          /\ ~Blank(data["title"][1])
          /\ Len(data["title"][1]) <= 200
    /\ "is_completed" \in DOMAIN data => data["is_completed"] # None

\* C5: an update of the requester's task with no field answers 200 with the
\* task as it is and changes nothing, updated_at included; an update with at
\* least one field that the handler accepts answers 200, and every update
\* with at least one field that answers 200 has set updated_at to the
\* reading of the clock it took, which is at or after the previous updated_at.
C5_UpdateNoOpPolicy ==
    [][ (req'.op = "update" /\ OnOwnTask(req', store)) =>
            LET id == req'.task_id
                data == model_dump(req'.data)
            IN  /\ DOMAIN data = {} =>
                      /\ resp'.status = 200
                      /\ resp'.body = TaskRead(store[id])
                      /\ store' = store
                /\ (DOMAIN data # {} /\ AcceptedFields(data)) => resp'.status = 200
                /\ (DOMAIN data # {} /\ resp'.status = 200) =>
                      /\ store'[id].updated_at = clock'
                      /\ resp'.body.updated_at = clock'
                      /\ clock' >= store[id].updated_at
      ]_vars

\* An update that sent only a description was answered 200 with an updated_at
\* later than created_at.
C5_Witness ==
    /\ req.op = "update"
    /\ OnOwnTask(req, store)
    /\ DOMAIN req.data = {"description"}
    /\ resp.status = 200
    /\ resp.body.updated_at > resp.body.created_at
    /\ store[req.task_id].updated_at = resp.body.updated_at

\* A title the handler rejects: null, empty, whitespace, or over 200 characters.
RejectedTitle(opt) == opt = None \/ Blank(opt[1]) \/ Len(opt[1]) > 200

\* C6: an update of the requester's task whose title is rejected ends in a
\* validation failure (400 or 422) and leaves every row as it was, whatever
\* other fields the body holds.
C6_UpdateAtomicOnInvalidTitle ==
    [][ (/\ req'.op = "update" /\ OnOwnTask(req', store)
         /\ "title" \in DOMAIN req'.data
         /\ RejectedTitle(req'.data["title"])) =>
            /\ resp'.status \in {400, 422}
            /\ store' = store
      ]_vars

\* An update with a whitespace title, a description and a flag was rejected,
\* and the row holds neither the description nor the flag.
C6_Witness ==
    /\ req.op = "update"
    /\ OnOwnTask(req, store)
    /\ req.data = UpdateBody(AllFields, Some(BlankTitle), Some("d"), Some(TRUE))
    /\ resp.status = 400
    /\ store[req.task_id].description = None
    /\ store[req.task_id].is_completed = FALSE

\* C7: complete and uncomplete of the requester's task answer 200 whatever
\* the flag was; the row then holds the flag (TRUE for complete, FALSE for
\* uncomplete) and the clock reading as updated_at, every other field as
\* before, and the response is the row.
C7_CompletionToggles ==
    [][ (req'.op \in {"complete", "uncomplete"} /\ OnOwnTask(req', store)) =>
            LET id == req'.task_id
            IN  /\ resp'.status = 200
                /\ store' = [store EXCEPT ![id] =
                                [@ EXCEPT !.is_completed = (req'.op = "complete"),
                                          !.updated_at = clock']]
                /\ clock' >= store[id].updated_at
                /\ resp'.body = TaskRead(store'[id])
      ]_vars

\* A task was uncompleted after it had been updated at an earlier time.
C7_Witness ==
    /\ req.op = "uncomplete"
    /\ OnOwnTask(req, store)
    /\ resp.status = 200
    /\ resp.body.is_completed = FALSE
    /\ resp.body.updated_at > resp.body.created_at

ListsOwnRowsNewestFirst ==
    LET body == resp.body
        own == {i \in DOMAIN store : store[i].user_id = Requester(req)}
    IN  /\ Len(body) = Cardinality(own)
        /\ ListedIds(body) = own
        /\ \A i \in 1..Len(body) : body[i] = TaskRead(store[body[i].id])
        /\ \A i, j \in 1..Len(body) :
              i < j => body[i].created_at >= body[j].created_at

C10_NoEmptyIdentity ==
    /\ (req.cred.kind = "valid" /\ req.cred.sub \in {None, Some("")}) =>
           resp.status = 401
    /\ Authenticated(req) => Requester(req) # ""
    /\ \A id \in DOMAIN store : store[id].user_id # ""

\* A credential that does not authenticate: no Authorization header, a token
\* that jwt.decode refuses, or a token without subject.
Unauthenticated(cred) == cred.kind # "valid" \/ cred.sub = None

\* C11: every request with an absent, malformed, badly signed, expired or
\* subject-less credential is answered 401 with code UNAUTHORIZED and the
\* Bearer challenge, whatever its task id and body, makes no session call and
\* changes nothing.
C11_AuthFailsUniformly ==
    [][ Unauthenticated(req'.cred) =>
            /\ resp'.status = 401
            /\ resp'.code = "UNAUTHORIZED"
            /\ resp'.www_authenticate = "Bearer"
            /\ calls' = <<"respond">>
            /\ UNCHANGED <<store, idSeq, clock, deleted>>
      ]_vars

\* What the code keeps of C11: the statement for every request that carries
\* a bearer token.
C11_TokenFailuresUniform ==
    [][ (Unauthenticated(req'.cred) /\ req'.cred.kind # "absent") =>
            /\ resp'.status = 401
            /\ resp'.code = "UNAUTHORIZED"
            /\ resp'.www_authenticate = "Bearer"
            /\ calls' = <<"respond">>
            /\ UNCHANGED <<store, idSeq, clock, deleted>>
      ]_vars

\* The response is the validation failure of the error taxonomy: 400, code
\* VALIDATION_ERROR, with field title and the constraint that was violated.
IsValidationFailure(r) ==
    /\ r.status = 400
    /\ r.code = "VALIDATION_ERROR"
    /\ r.body.field = "title"
    /\ r.body.constraint \in {"required", "length"}

\* C12: every failure category has one status and one error code: a title
\* that is empty, whitespace-only or over 200 characters, on create and on
\* update of the requester's task, is answered 400 / VALIDATION_ERROR with
\* field and constraint; a request on a task that does not exist or is
\* another user's is answered 404 / NOT_FOUND; a request that does not
\* authenticate is answered 401 / UNAUTHORIZED; and no other code goes with
\* these statuses.
C12_OneStatusPerCategory ==
    [][ /\ (/\ req'.op = "create" /\ Authenticated(req')
            /\ RejectedTitle(req'.data["title"])) => IsValidationFailure(resp')
        /\ (/\ req'.op = "update" /\ OnOwnTask(req', store)
            /\ "title" \in DOMAIN req'.data
            /\ RejectedTitle(req'.data["title"])) => IsValidationFailure(resp')
        /\ (/\ req'.op \in TaskOps /\ Authenticated(req')
            /\ ~OnOwnTask(req', store)) =>
              (resp'.status = 404 /\ resp'.code = "NOT_FOUND")
        /\ Unauthenticated(req'.cred) =>
              (resp'.status = 401 /\ resp'.code = "UNAUTHORIZED")
        /\ resp'.status = 400 => resp'.code = "VALIDATION_ERROR"
        /\ resp'.status = 401 => resp'.code = "UNAUTHORIZED"
        /\ resp'.status = 404 => resp'.code = "NOT_FOUND"
      ]_vars

\* C13: in every state every stored task has updated_at >= created_at.
C13_UpdatedNotBeforeCreated ==
    \A id \in DOMAIN store : store[id].updated_at >= store[id].created_at

\* A task whose updated_at was moved past its created_at by a completion.
C13_Witness ==
    /\ req.op = "complete"
    /\ OnOwnTask(req, store)
    /\ resp.status = 200
    /\ store[req.task_id].updated_at > store[req.task_id].created_at

\* C14: the id, the owner and created_at of a task keep the values given at
\* creation: no request changes them in a row that stays in the table,
\* whatever its body, and an id is never given to a second task.
C14_ImmutableFields ==
    [][ /\ \A id \in DOMAIN store \cap DOMAIN store' :
              /\ store'[id].id = store[id].id
              /\ store'[id].user_id = store[id].user_id
              /\ store'[id].created_at = store[id].created_at
        /\ \A id \in DOMAIN store' : store'[id].id = id
        /\ \A id \in DOMAIN store' \ DOMAIN store : id > idSeq
      ]_vars

\* An update whose body names id, user_id and created_at beside a description
\* was answered 200 and the row kept its owner.
C14_Witness ==
    /\ req.op = "update"
    /\ OnOwnTask(req, store)
    /\ {"user_id", "id", "created_at", "description"} \subseteq DOMAIN req.data
    /\ resp.status = 200
    /\ store[req.task_id].description = Some("d")
    /\ store[req.task_id].user_id = "u1"

\* The title passes the bound as C15 states it: its trimmed form is not empty
\* and has at most 200 characters.
TrimmedTitleInBound(title) ==
    TitleMinLength <= Len(Strip(title)) /\ Len(Strip(title)) <= TitleMaxLength

\* C15: on create and on update of the requester's task, a title whose
\* trimmed form has 1 to 200 characters is accepted and stored trimmed, also
\* when the untrimmed title is longer than 200 characters; every other title
\* is rejected and nothing is stored.
C15_BoundAfterTrim ==
    [][ /\ (req'.op = "create" /\ Authenticated(req')) =>
              LET title == req'.data["title"][1]
              IN  IF TrimmedTitleInBound(title)
                  THEN /\ resp'.status = 201
                       /\ store'[resp'.body.id].title = Strip(title)
                  ELSE /\ resp'.status \in {400, 422}
                       /\ store' = store
        /\ (/\ req'.op = "update" /\ OnOwnTask(req', store)
            /\ "title" \in DOMAIN req'.data /\ req'.data["title"] # None
            /\ AcceptedFields([f \in {"is_completed"} \cap DOMAIN req'.data |->
                                   req'.data[f]])) =>
              LET title == req'.data["title"][1]
              IN  IF TrimmedTitleInBound(title)
                  THEN /\ resp'.status = 200
                       /\ store'[req'.task_id].title = Strip(title)
                  ELSE /\ resp'.status \in {400, 422}
                       /\ store' = store
      ]_vars

\* C16: the flag of a task is FALSE at create and changes only by complete
\* (to TRUE) and uncomplete (to FALSE); no other request, an update in
\* particular, changes it.
C16_FlagOnlyByToggle ==
    [][ /\ \A id \in DOMAIN store' \ DOMAIN store : store'[id].is_completed = FALSE
        /\ \A id \in DOMAIN store \cap DOMAIN store' :
              store'[id].is_completed # store[id].is_completed =>
                  /\ req'.task_id = id
                  /\ req'.op \in {"complete", "uncomplete"}
                  /\ store'[id].is_completed = (req'.op = "complete")
      ]_vars

\* C16 as the code has it: an update whose body gives is_completed a value
\* sets the flag to it as well; an update that does not name the flag leaves
\* it alone.
C16_FlagByToggleOrUpdate ==
    [][ /\ \A id \in DOMAIN store' \ DOMAIN store : store'[id].is_completed = FALSE
        /\ \A id \in DOMAIN store \cap DOMAIN store' :
              store'[id].is_completed # store[id].is_completed =>
                  /\ req'.task_id = id
                  /\ \/ /\ req'.op \in {"complete", "uncomplete"}
                        /\ store'[id].is_completed = (req'.op = "complete")
                     \/ /\ req'.op = "update"
                        /\ "is_completed" \in DOMAIN req'.data
                        /\ req'.data["is_completed"] = Some(store'[id].is_completed)
      ]_vars

\* An update that names only the description of a completed task was
\* answered 200 and the task is still completed.
C16_Witness ==
    /\ req.op = "update"
    /\ OnOwnTask(req, store)
    /\ DOMAIN req.data = {"description"}
    /\ resp.status = 200
    /\ store[req.task_id].is_completed = TRUE

\* The request made the session call c.
Called(c) == \E i \in 1..Len(calls) : calls[i] = c

\* C17: a request that ends in a validation failure (400 or 422) has made no
\* persistence call: no read and no write of the store comes before the
\* failure, on update as on create.
C17_ValidationBeforePersistence ==
    resp.status \in {400, 422} =>
        ~Called("execute") /\ ~Called("flush") /\ ~Called("refresh") /\ ~Called("commit")

\* C17 as the code has it: a validation failure comes before every write;
\* on create, and for a body that fails its schema, before every read too;
\* the handler of update validates the title after get_task_with_ownership
\* has read the row.
C17_ValidationBeforeWrite ==
    resp.status \in {400, 422} =>
        /\ ~Called("flush") /\ ~Called("refresh") /\ ~Called("commit")
        /\ (req.op = "create" \/ resp.status = 422) => ~Called("execute")
        /\ (req.op = "update" /\ resp.status = 400) =>
              calls = <<"open", "execute", "rollback", "close", "respond">>

\* An update of the requester's task with a whitespace title was answered 400
\* after the row had been read.
C17_Witness ==
    /\ req.op = "update"
    /\ OnOwnTask(req, store)
    /\ req.data = TitleOnly(Some(BlankTitle))
    /\ resp.status = 400
    /\ Called("execute")

MutatingOps == {"create", "update", "delete", "complete", "uncomplete"}

Success(r) == r.status \in {200, 201, 204}

\* The request made the session call a, and later the call b.
CalledBefore(a, b) ==
    \E i, j \in 1..Len(calls) : i < j /\ calls[i] = a /\ calls[j] = b

\* The table holds what the success response r to request q says: the task
\* of the response body, or no row of the deleted id.
InStore(q, r, s) ==
    IF q.op = "delete" THEN q.task_id \notin DOMAIN s
    ELSE r.body.id \in DOMAIN s /\ TaskRead(s[r.body.id]) = r.body

\* C18: a create, update, delete, complete or uncomplete is answered with
\* success only after its change was committed: the response comes after the
\* commit, the commit did not fail, and the table holds the change.
C18_CommittedBeforeSuccess ==
    (req.op \in MutatingOps /\ Success(resp)) =>
        /\ CalledBefore("commit", "respond")
        /\ ~Called("rollback")
        /\ InStore(req, resp, store)

\* What the code keeps of C18 when the framework responds after get_session
\* has finished: the commit precedes every success response.
C18_CommittedBeforeSuccessIfTeardownFirst ==
    (req.op \in MutatingOps /\ Success(resp) /\ CalledBefore("close", "respond")) =>
        /\ CalledBefore("commit", "respond")
        /\ ~Called("rollback")
        /\ InStore(req, resp, store)

\* C20: a request whose identity was resolved opens one session and closes
\* it after its last session call, on every path; after a handler that
\* returned, the session commits, and the table then holds the change;
\* after a failure (a body that fails its schema, a validation failure, not
\* found, a failing flush or commit) the session rolls back and the table is
\* as it was before the request.  A request that fails authentication opens
\* no session.
C20_SessionDiscipline ==
    [][ LET n == Len(calls')
            opened == \E i \in 1..n : calls'[i] = "open"
            committed == \E i \in 1..n : calls'[i] = "commit"
            rolledBack == \E i \in 1..n : calls'[i] = "rollback"
            sessionCalls == {i \in 1..n : calls'[i] # "respond"}
        IN  /\ opened <=> Authenticated(req')
            /\ opened =>
                  /\ Cardinality({i \in 1..n : calls'[i] = "open"}) = 1
                  /\ Cardinality({i \in 1..n : calls'[i] = "close"}) = 1
                  /\ \A i \in sessionCalls :
                        /\ calls'[i] = "open" <=> (\A j \in sessionCalls : i <= j)
                        /\ calls'[i] = "close" <=> (\A j \in sessionCalls : j <= i)
                  /\ committed \/ rolledBack
            /\ resp'.status \in {400, 404, 422, 500} => (rolledBack /\ opened)
            /\ (opened /\ Success(resp')) => committed
            /\ rolledBack => (store' = store /\ deleted' = deleted)
            /\ (committed /\ ~rolledBack) =>
                  /\ Success(resp')
                  /\ req'.op \in MutatingOps => InStore(req', resp', store')
                  /\ req'.op = "list" => store' = store
      ]_vars

\* An update that set the flag to null failed in its flush, was rolled back
\* and its session closed.
C20_Witness ==
    /\ req.op = "update"
    /\ OnOwnTask(req, store)
    /\ resp.status = 500
    /\ calls = <<"open", "execute", "flush", "rollback", "close", "respond">>
    /\ store[req.task_id].description = None

\* The columns the request q provides, with the values it gives them.
Provided(q) ==
    IF q.op = "complete" THEN [f \in {"is_completed"} |-> TRUE]
    ELSE IF q.op = "uncomplete" THEN [f \in {"is_completed"} |-> FALSE]
    ELSE LET update_data == model_dump(q.data)
         IN  [f \in DOMAIN update_data |->
                  IF f = "title" THEN Strip(update_data[f][1])
                  ELSE IF f = "description" THEN update_data[f]
                  ELSE update_data[f][1]]

\* The step commits the request of slot i.
Commits(i) ==
    /\ i \in DOMAIN sessions
    /\ sessions[i].pc = "commit"
    /\ i \notin DOMAIN sessions'

\* C19: under every interleaving of update, complete and uncomplete requests
\* of the owner on one task, when a request commits the committed row holds
\* every field the request provided, with the request's value: no request is
\* applied in part, and a field written by several requests has the value of
\* the one that committed last.
C19_LastCommitWins ==
    [][ \A i \in Slots :
            LET q == sessions[i].req
            IN  (/\ Commits(i)
                 /\ q.op \in {"update", "complete", "uncomplete"}
                 /\ q.task_id \in DOMAIN store') =>
                    \A f \in DOMAIN Provided(q) :
                        store'[q.task_id][f] = Provided(q)[f]
      ]_vars

\* What the code keeps of C19: the commit writes, in one statement, the
\* columns that the request changed in the row it had loaded, and leaves the
\* other columns as the last commit before it left them.
C19_ChangedColumnsLastCommitWins ==
    [][ \A i \in Slots :
            LET q == sessions[i].req
                id == q.task_id
            IN  (/\ Commits(i)
                 /\ q.op \in {"update", "complete", "uncomplete"}
                 /\ id \in DOMAIN store /\ id \in DOMAIN store') =>
                    \A f \in DOMAIN store[id] :
                        store'[id][f] =
                            IF f = "updated_at"
                            THEN (IF sessions[i].lock
                                  THEN sessions[i].task.updated_at
                                  ELSE store[id][f])
                            ELSE IF /\ f \in DOMAIN Provided(q)
                                    /\ Provided(q)[f] # sessions[i].loaded[f]
                            THEN Provided(q)[f]
                            ELSE store[id][f]
      ]_vars

\* The value is one of the two booleans (and not None).
IsBoolean(v) == ToString(v) \in {"TRUE", "FALSE"}

\* The tasks in the body of the last response: the task of a successful
\* create, update, complete or uncomplete, the tasks of a list.
ReturnedTasks ==
    IF /\ req.op \in {"create", "update", "complete", "uncomplete"}
       /\ resp.status \in {200, 201}
    THEN {resp.body}
    ELSE IF req.op = "list" /\ resp.status = 200
    THEN {resp.body[i] : i \in 1..Len(resp.body)}
    ELSE {}

\* C21: in every reachable state the completed flag of every stored task and
\* of every returned task is true or false; an update that supplies null for
\* the flag leaves no stored and no returned task with another value.
C21_FlagIsBoolean ==
    /\ \A id \in DOMAIN store : IsBoolean(store[id].is_completed)
    /\ \A task \in ReturnedTasks : IsBoolean(task.is_completed)

\* The owner's update with a title that is accepted and a null flag was
\* answered 500, and the task is stored with the flag it had.
C21_Witness ==
    /\ req.op = "update"
    /\ OnOwnTask(req, store)
    /\ "is_completed" \in DOMAIN req.data
    /\ req.data["is_completed"] = None
    /\ "title" \in DOMAIN req.data
    /\ resp.status = 500
    /\ store[req.task_id].is_completed = FALSE

\* The step ends the request of slot i: its response is sent.
Finishes(i) == i \in DOMAIN sessions /\ i \notin DOMAIN sessions'

\* C22: under every interleaving of a delete with update, complete and
\* uncomplete requests of the owner on the same task, a task whose delete has
\* committed is in the store in no later state, and a request that loaded the
\* task before that commit and ends after it is not answered with success.
C22_NoResurrection ==
    [][ /\ \A id \in deleted' : id \notin DOMAIN store'
        /\ \A i \in Slots :
              (/\ Finishes(i)
               /\ sessions[i].req.op \in {"update", "complete", "uncomplete"}
               /\ sessions[i].req.task_id \in deleted) =>
                  ~Success(resp')
      ]_vars

\* What the code keeps of C22: the deleted task never comes back, and a
\* request that ends after the delete is answered with success only when its
\* flush had no column to write (every value it set, updated_at included, was
\* the loaded one) and its refresh read the row before the delete committed:
\* it answers with the row it read and commits nothing.
C22_NoResurrectionByWriters ==
    [][ /\ \A id \in deleted' : id \notin DOMAIN store'
        /\ \A i \in Slots :
              (/\ Finishes(i)
               /\ sessions[i].req.op \in {"update", "complete", "uncomplete"}
               /\ sessions[i].req.task_id \in deleted
               /\ Success(resp')) =>
                  /\ sessions[i].pc = "commit"
                  /\ ~sessions[i].lock
                  /\ resp'.body = TaskRead(sessions[i].task)
                  /\ store' = store
      ]_vars

====
